---- MODULE Spec2Model ----
(***************************************************************************)
(* Model of pi_control/control_interface.py: a serial link manager         *)
(* (connect_serial, send_command), the self-rescheduling status poller     *)
(* (update_status) and the Flask HTTP facade (index, api_status,           *)
(* api_command, api_mode), together with the serial device on the other    *)
(* end of the line.                                                        *)
(*                                                                         *)
(* JSON scalars are written as their JSON literal text ("65000.1",         *)
(* "true"), so every dictionary maps strings to strings.                   *)
(***************************************************************************)
EXTENDS Integers, Sequences, FiniteSets, TLC

VARIABLES
    mainPc,            \* where main() / the process is
    serial_port,       \* global serial_port: "None" or "open"
    serial_connected,  \* global serial_connected
    device_status,     \* global device_status (a dict)
    pollerPc,          \* where the status poller is
    req,               \* per HTTP worker thread: the request being served
    call,              \* per caller: its current/last send_command invocation
    http,              \* per HTTP worker thread: the response last returned
    line,              \* commands the device has received and not yet answered
    rx,                \* reply chunks waiting in the port's input buffer
    tick,              \* what the last finished poller tick saw
    timers,            \* threading.Timer objects started and not yet fired
    connects           \* how many times connect_serial has run

vars == <<mainPc, serial_port, serial_connected, device_status, pollerPc,
          req, call, http, line, rx, tick, timers, connects>>

-----------------------------------------------------------------------------
(* Bounds *)

\* Commands the device can hold unanswered; further ones are lost.
MaxLine == 1
\* Reply chunks the input buffer can hold unread; further ones are lost.
MaxRx == 1

\* HTTP worker threads: the one request being served next to the poller.
Clients == {"h1"}
Poller == "poller"
Callers == Clients \cup {Poller}

-----------------------------------------------------------------------------
(* Data *)

EmptyDict == [k \in {} |-> ""]

\* device_status as the module defines it.
InitialStatus ==
    [mode |-> "unknown", btc_price |-> "0.0", btc_change |-> "0.0",
     wifi_connected |-> "false", last_update |-> "0"]

StatusFields == DOMAIN InitialStatus

\* One element of a JSON array: a two-element array [k, v], or anything else.
Pair(k, v) == [pair |-> TRUE, k |-> k, v |-> v]
Scalar(v) == [pair |-> FALSE, k |-> "", v |-> v]

\* A chunk of text sent by the device, described by what it spells:
\* kind "raw" is text that is not JSON, the other kinds are JSON documents.
Raw(t) == [kind |-> "raw", text |-> t, obj |-> EmptyDict, items |-> <<>>]
JNumber(t) == [kind |-> "number", text |-> t, obj |-> EmptyDict, items |-> <<>>]
JString(t) == [kind |-> "string", text |-> t, obj |-> EmptyDict, items |-> <<>>]
JObject(o) == [kind |-> "object", text |-> "", obj |-> o, items |-> <<>>]
JList(s) == [kind |-> "list", text |-> "", obj |-> EmptyDict, items |-> s]

\* The JSON objects the device sends in this model: partial and full status
\* reports, the empty object, and one carrying a key device_status lacks.
ReplyObjects ==
    { [mode |-> "sniff", btc_price |-> "65000.1"],
      [mode |-> "scan", uptime |-> "7"],
      EmptyDict }

\* Everything the device may send as one reply.
Replies ==
    { JObject(o) : o \in ReplyObjects }
    \cup { Raw("OK"), JNumber("5"), JString("OK"),
           JList(<<>>),
           JList(<<Pair("uptime", "7")>>),
           JList(<<Pair("mode", "scan"), Scalar("5")>>) }

\* To the HTTP routes a reply is text passed through unread.
Opaque == Raw("OK")

\* Values of the command / mode field of a POST body ("" is the empty string).
FieldValues == {"", "scan"}
BodyFields == {"command", "mode"}
\* JSON request bodies: the empty object, and objects with one of the two
\* fields the routes look at.
Bodies == {EmptyDict} \cup UNION { [{f} -> FieldValues] : f \in BodyFields }

-----------------------------------------------------------------------------
(* send_command, in the two halves its sleep separates *)

\* The record of one send_command invocation by one caller.
\*   state    : "idle" (none yet), "sleeping" (written, in time.sleep(0.1)),
\*              "returned"
\*   wrote    : the texts passed to serial_port.write
\*   reads    : how many times serial_port.read was called
\*   success, error, response : the returned pair; the second component is
\*              `error` (a message) on failure and `response` (the chunks
\*              read, each with the caller whose command it answers) on success
\*   raised   : an exception left send_command
\*   robbed   : while this invocation slept, another caller's read took a
\*              chunk answering its command (history, not program state)
NoCall ==
    [state |-> "idle", called |-> FALSE, wrote |-> <<>>, reads |-> 0,
     success |-> FALSE, error |-> "", response |-> <<>>, raised |-> FALSE,
     robbed |-> FALSE]

NotConnected_AlwaysConnected == FALSE

\* `if not serial_connected`
NotConnected == ~serial_connected

CommandLine_NoNewline(command) == command

\* f"{command}\n" for a command that is a string
CommandLine(command) == command \o "\n"

SendFailure_Raises(e) ==
    [success |-> FALSE, error |-> e, raised |-> TRUE]

\* `except Exception as e: ... return False, str(e)`
SendFailure(e) ==
    [success |-> FALSE, error |-> e, raised |-> FALSE]

Returned(r, wrote, reads) ==
    [state |-> "returned", called |-> TRUE, wrote |-> wrote, reads |-> reads,
     success |-> r.success, error |-> r.error, response |-> <<>>,
     raised |-> r.raised, robbed |-> FALSE]

\* The device's input: a command written while it still holds MaxLine
\* unanswered ones is lost.
DeviceReceive(l, c) == IF Len(l) < MaxLine THEN Append(l, c) ELSE l

\* `return False, "Not connected to device"`
NotConnectedResult ==
    [success |-> FALSE, error |-> "Not connected to device", raised |-> FALSE]

\* send_command up to and including time.sleep(0.1): the invocation's record
\* when it returns at once, or sleeps after the write.
\* werr: serial_port.write raises.
SendEnter(command, werr) ==
    IF NotConnected
    THEN Returned(NotConnectedResult, <<>>, 0)
    ELSE IF serial_port = "None"
    THEN Returned(SendFailure("'NoneType' object has no attribute 'write'"),
                  <<>>, 0)
    ELSE IF werr
    THEN Returned(SendFailure("write failed"), <<CommandLine(command)>>, 0)
    ELSE [NoCall EXCEPT !.state = "sleeping", !.called = TRUE,
                        !.wrote = <<CommandLine(command)>>]

\* The device's side of that write by c.
LineAfterEnter(c, r) ==
    IF r.state = "sleeping" THEN DeviceReceive(line, c) ELSE line

Takes_OwnReplyOnly(c, t) == t = c

\* serial_port.read(serial_port.in_waiting): the caller c takes the waiting
\* chunk that answers t's command. It takes every waiting byte.
Takes(c, t) == TRUE

Taken(c) == SelectSeq(rx, LAMBDA t : Takes(c, t))

ReadOutcomes == {"ok", "read_error", "decode_error"}

\* outcome: the read succeeds, serial_port.read raises, or .decode() raises
\* on the bytes read; bodies: what the chunks taken spell.
ReadPossible(c, outcome, bodies) ==
    CASE outcome = "ok" -> DOMAIN bodies = 1..Len(Taken(c))
      [] outcome = "read_error" -> bodies = <<>>
      [] outcome = "decode_error" -> bodies = <<>> /\ Taken(c) # <<>>

\* send_command from the read to its return, called by c: the invocation's
\* record at the return.
SendResume(c, outcome, bodies) ==
    LET w == call[c].wrote
    IN  CASE outcome = "ok" ->
               [state |-> "returned", called |-> TRUE, wrote |-> w,
                reads |-> 1, success |-> TRUE, error |-> "",
                response |-> [i \in 1..Len(Taken(c)) |->
                                 [for |-> Taken(c)[i], body |-> bodies[i]]],
                raised |-> FALSE, robbed |-> call[c].robbed]
          [] outcome = "read_error" ->
               [Returned(SendFailure("read failed"), w, 1)
                   EXCEPT !.robbed = call[c].robbed]
          [] outcome = "decode_error" ->
               [Returned(SendFailure("can't decode byte"), w, 1)
                   EXCEPT !.robbed = call[c].robbed]

\* Once c's invocation has returned, what still answers its command is late.
Late(buf, c) == [i \in 1..Len(buf) |-> IF buf[i] = c THEN "late" ELSE buf[i]]

\* The input buffer after that read by c.
RxAfterResume(c, outcome) ==
    Late(IF outcome = "read_error" THEN rx
         ELSE SelectSeq(rx, LAMBDA t : ~Takes(c, t)), c)

\* The other callers' invocations after that read by c: one whose reply c
\* took is marked.
Robbing(c, outcome) ==
    [x \in Callers |->
        IF /\ x # c
           /\ outcome # "read_error"
           /\ \E i \in 1..Len(Taken(c)) : Taken(c)[i] = x
        THEN [call[x] EXCEPT !.robbed = TRUE]
        ELSE call[x]]

-----------------------------------------------------------------------------
(* update_status *)

AllNumbers(resp) == \A i \in 1..Len(resp) : resp[i].body.kind = "number"

RECURSIVE Digits(_)
Digits(resp) ==
    IF resp = <<>> THEN "" ELSE resp[1].body.text \o Digits(Tail(resp))

\* json.loads(response), response being the concatenation of the chunks read.
\* [ok |-> FALSE] is JSONDecodeError: the empty text, text that is not JSON,
\* and two documents one after the other ("Extra data") all raise it; digits
\* followed by digits spell one number.
json_loads(resp) ==
    IF Len(resp) = 0 THEN [ok |-> FALSE, val |-> Raw("")]
    ELSE IF Len(resp) = 1
    THEN [ok |-> resp[1].body.kind # "raw", val |-> resp[1].body]
    ELSE IF AllNumbers(resp) THEN [ok |-> TRUE, val |-> JNumber(Digits(resp))]
    ELSE [ok |-> FALSE, val |-> Raw("")]

dict_merge_Replace(d, o) == o

\* d.update(o) for a dict o: o's keys are set in d, the others are kept.
dict_merge(d, o) ==
    [k \in DOMAIN d \cup DOMAIN o |-> IF k \in DOMAIN o THEN o[k] ELSE d[k]]

\* d.update(items) for a list: the elements are applied in order, and the
\* first that is not a pair raises, the pairs before it having been applied.
RECURSIVE update_from_seq(_, _)
update_from_seq(d, items) ==
    IF items = <<>> THEN [d |-> d, raised |-> FALSE]
    ELSE IF ~items[1].pair THEN [d |-> d, raised |-> TRUE]
    ELSE update_from_seq(dict_merge(d, [k \in {items[1].k} |-> items[1].v]),
                         Tail(items))

dict_update_Assign(d, v) == [d |-> v.obj, raised |-> FALSE]

\* device_status.update(status) for any JSON value: a value that cannot be
\* iterated (a number) raises TypeError, a non-empty string raises
\* ValueError (its elements are not pairs), the empty string changes nothing.
dict_update(d, v) ==
    CASE v.kind = "object" -> [d |-> dict_merge(d, v.obj), raised |-> FALSE]
      [] v.kind = "list" -> update_from_seq(d, v.items)
      [] v.kind = "string" -> [d |-> d, raised |-> v.text # ""]
      [] OTHER -> [d |-> d, raised |-> TRUE]

StatusAfterTick_ResetOnFailure(ret, status) ==
    IF ret.success /\ json_loads(ret.response).ok
    THEN dict_update(status, json_loads(ret.response).val)
    ELSE [d |-> InitialStatus, raised |-> FALSE]

\* The body of update_status after send_command returned ret: the new
\* device_status and whether an exception leaves update_status.
StatusAfterTick(ret, status) ==
    IF ret.raised THEN [d |-> status, raised |-> TRUE]
    ELSE IF ~ret.success THEN [d |-> status, raised |-> FALSE]
    ELSE LET p == json_loads(ret.response)
         IN  IF ~p.ok THEN [d |-> status, raised |-> FALSE]
             ELSE dict_update(status, p.val)

-----------------------------------------------------------------------------
(* main and connect_serial *)

MainAfterConnect_IgnoresResult(ok) == "first_tick"

\* `if connect_serial(...): update_status(); app.run(...)  else: print(...)`
MainAfterConnect(ok) == IF ok THEN "first_tick" ELSE "exited"

\* main() up to the branch on connect_serial's result. ok: serial.Serial opens.
MainConnect ==
    /\ mainPc = "start"
    /\ \E ok \in BOOLEAN :
          /\ serial_port' = IF ok THEN "open" ELSE "None"
          /\ serial_connected' = ok
          /\ mainPc' = MainAfterConnect(ok)
    /\ connects' = connects + 1
    /\ UNCHANGED <<device_status, pollerPc, req, call, http, line, rx, tick, timers>>

-----------------------------------------------------------------------------
(* The status poller *)

\* What a finished tick saw: send_command's result (n: how many chunks it
\* read), whether json.loads returned and what (`val`), and whether an
\* exception left update_status.
NoTick ==
    [done |-> FALSE, success |-> FALSE, error |-> "", n |-> 0,
     parsed |-> FALSE, val |-> Raw(""), raised |-> FALSE, robbed |-> FALSE]

TickSeen(ret, raised) ==
    LET p == json_loads(ret.response)
    IN  [done |-> TRUE, success |-> ret.success, error |-> ret.error,
         n |-> Len(ret.response),
         parsed |-> ret.success /\ p.ok,
         val |-> IF ret.success /\ p.ok THEN p.val ELSE Raw(""),
         raised |-> raised, robbed |-> ret.robbed]

\* update_status from `if success:` to its end, send_command having returned
\* ret and t Timers being pending: merge, then start the next Timer unless an
\* exception got out. The first tick runs in main(), which goes on to
\* app.run after it, or dies of the exception.
TickEnd(ret, t) ==
    LET r == StatusAfterTick(ret, device_status)
    IN  /\ device_status' = r.d
        /\ tick' = TickSeen(ret, r.raised)
        /\ pollerPc' = IF r.raised THEN "raised" ELSE "idle"
        /\ timers' = IF r.raised THEN t ELSE t + 1
        /\ mainPc' = IF mainPc = "first_tick"
                     THEN (IF r.raised THEN "crashed" ELSE "serving")
                     ELSE mainPc

\* A tick starts: main() calls update_status(), or a Timer fires. It runs
\* send_command("status") up to the sleep, or to the end of the tick when
\* send_command returns at once.
PollerTickBegin ==
    /\ \/ mainPc = "first_tick" /\ pollerPc = "none"
       \/ pollerPc = "idle" /\ timers > 0
    /\ \E werr \in BOOLEAN :
          LET r == SendEnter("status", werr)
              t == IF pollerPc = "idle" THEN timers - 1 ELSE timers
          IN  /\ line' = LineAfterEnter(Poller, r)
              /\ IF r.state = "returned"
                 THEN /\ TickEnd(r, t)
                      /\ call' = [call EXCEPT ![Poller] = NoCall]
                 ELSE /\ call' = [call EXCEPT ![Poller] = r]
                      /\ pollerPc' = "sleeping"
                      /\ timers' = t
                      /\ UNCHANGED <<device_status, mainPc, tick>>
    /\ UNCHANGED <<serial_port, serial_connected, req, http, rx, connects>>

\* What the chunks of one read by the poller can spell.
BodiesOf(outcome) ==
    IF outcome = "ok" THEN [1..Len(Taken(Poller)) -> Replies] ELSE {<<>>}

\* The tick resumes after the sleep: the read, then json.loads, the merge
\* and the next Timer.
PollerTickEnd ==
    /\ pollerPc = "sleeping"
    /\ \E outcome \in ReadOutcomes : \E bodies \in BodiesOf(outcome) :
          /\ ReadPossible(Poller, outcome, bodies)
          /\ TickEnd(SendResume(Poller, outcome, bodies), timers)
          /\ rx' = RxAfterResume(Poller, outcome)
          /\ call' = [Robbing(Poller, outcome) EXCEPT ![Poller] = NoCall]
    /\ line' = Late(line, Poller)
    /\ UNCHANGED <<serial_port, serial_connected, req, http, connects>>

-----------------------------------------------------------------------------
(* The HTTP facade *)

\* The body Flask returns, as a record: code, then the JSON fields used by
\* the route (status for the two GET routes; success with error or response
\* for the POST routes).
NoHttp ==
    [code |-> 0, success |-> FALSE, error |-> "", response |-> <<>>,
     status |-> EmptyDict]

NoReq == [pc |-> "idle", route |-> "/", body |-> EmptyDict]

\* app.run is serving: main() reached it, or the module was imported and its
\* `app` is served by the importer.
Serving == mainPc \in {"serving", "imported"}

Missing_Never(body, field) == FALSE

\* `x = request.json.get(field)` then `if not x`: absent, or the empty string
Missing(body, field) == field \notin DOMAIN body \/ body[field] = ""

\* request.json.get(field), formatted as an f-string formats it
FieldText(body, field) == IF field \in DOMAIN body THEN body[field] ELSE "None"

\* f"mode {mode}"
ModeCommand(mode) == "mode " \o mode

\* The command a POST route passes to send_command.
ForwardedCommand(route, body) ==
    IF route = "/api/command" THEN FieldText(body, "command")
    ELSE ModeCommand(FieldText(body, "mode"))

RouteField(route) == IF route = "/api/command" THEN "command" ELSE "mode"

RouteError(route) ==
    IF route = "/api/command" THEN "No command provided" ELSE "No mode provided"

\* jsonify({"success": success, "response": response}); an exception leaving
\* the handler is Flask's 500.
Respond(ret) ==
    IF ret.raised THEN [NoHttp EXCEPT !.code = 500]
    ELSE [code |-> 200, success |-> ret.success, error |-> ret.error,
          response |-> ret.response, status |-> EmptyDict]

\* index and api_status: the page or the JSON of device_status as it is now.
HttpGet(c) ==
    /\ Serving
    /\ req[c].pc # "sleeping"
    /\ \E route \in {"/", "/api/status"} :
          req' = [req EXCEPT ![c] = [pc |-> "done", route |-> route,
                                     body |-> EmptyDict]]
    /\ http' = [http EXCEPT ![c] = [NoHttp EXCEPT !.code = 200,
                                                  !.status = device_status]]
    /\ call' = [call EXCEPT ![c] = NoCall]
    /\ UNCHANGED <<mainPc, serial_port, serial_connected, device_status,
                   pollerPc, line, rx, tick, timers, connects>>

\* api_command and api_mode up to the sleep inside send_command, or to their
\* return when the field is missing or send_command returns at once.
HttpPostBegin(c) ==
    /\ Serving
    /\ req[c].pc # "sleeping"
    /\ \E route \in {"/api/command", "/api/mode"}, body \in Bodies :
          IF Missing(body, RouteField(route))
          THEN /\ req' = [req EXCEPT ![c] = [pc |-> "done", route |-> route,
                                             body |-> body]]
               /\ http' = [http EXCEPT ![c] =
                              [NoHttp EXCEPT !.code = 400,
                                             !.error = RouteError(route)]]
               /\ call' = [call EXCEPT ![c] = NoCall]
               /\ line' = line
          ELSE \E werr \in BOOLEAN :
                 LET r == SendEnter(ForwardedCommand(route, body), werr)
                 IN  /\ call' = [call EXCEPT ![c] = r]
                     /\ line' = LineAfterEnter(c, r)
                     /\ req' = [req EXCEPT ![c] =
                           [pc |-> IF r.state = "returned" THEN "done"
                                   ELSE "sleeping",
                            route |-> route, body |-> body]]
                     /\ http' = [http EXCEPT ![c] =
                           IF r.state = "returned" THEN Respond(r) ELSE NoHttp]
    /\ UNCHANGED <<mainPc, serial_port, serial_connected, device_status,
                   pollerPc, rx, tick, timers, connects>>

\* api_command and api_mode from the read inside send_command to their return.
HttpPostEnd(c) ==
    /\ req[c].pc = "sleeping"
    /\ \E outcome \in ReadOutcomes :
          LET bodies == IF outcome = "ok"
                        THEN [i \in 1..Len(Taken(c)) |-> Opaque] ELSE <<>>
          IN  /\ ReadPossible(c, outcome, bodies)
              /\ call' = [Robbing(c, outcome) EXCEPT
                              ![c] = SendResume(c, outcome, bodies)]
              /\ rx' = RxAfterResume(c, outcome)
    /\ line' = Late(line, c)
    /\ req' = [req EXCEPT ![c].pc = "done"]
    /\ http' = [http EXCEPT ![c] = Respond(call'[c])]
    /\ UNCHANGED <<mainPc, serial_port, serial_connected, device_status,
                   pollerPc, tick, timers, connects>>

-----------------------------------------------------------------------------
(* The device *)

\* The device answers the oldest command it holds; the chunk is lost when
\* the input buffer already holds MaxRx.
DeviceReply ==
    /\ line # <<>>
    /\ line' = Tail(line)
    /\ rx' = IF Len(rx) < MaxRx THEN Append(rx, Head(line)) ELSE rx
    /\ UNCHANGED <<mainPc, serial_port, serial_connected, device_status,
                   pollerPc, req, call, http, tick, timers, connects>>

\* The device sends nothing for the oldest command it holds.
DeviceSilent ==
    /\ line # <<>>
    /\ line' = Tail(line)
    /\ UNCHANGED <<mainPc, serial_port, serial_connected, device_status,
                   pollerPc, req, call, http, rx, tick, timers, connects>>

-----------------------------------------------------------------------------

\* The module's globals once it is loaded. Run as a script, main() is still
\* to be called; imported, main() is not called and `app` is served as is.
Init ==
    /\ mainPc \in {"start", "imported"}
    /\ serial_port = "None"
    /\ serial_connected = FALSE
    /\ device_status = InitialStatus
    /\ pollerPc = "none"
    /\ req = [c \in Clients |-> NoReq]
    /\ call = [c \in Callers |-> NoCall]
    /\ http = [c \in Clients |-> NoHttp]
    /\ line = <<>>
    /\ rx = <<>>
    /\ tick = NoTick
    /\ timers = 0
    /\ connects = 0

Next ==
    \/ MainConnect
    \/ PollerTickBegin
    \/ PollerTickEnd
    \/ \E c \in Clients : HttpGet(c)
    \/ \E c \in Clients : HttpPostBegin(c)
    \/ \E c \in Clients : HttpPostEnd(c)
    \/ DeviceReply
    \/ DeviceSilent

Spec == Init /\ [][Next]_vars

-----------------------------------------------------------------------------
(* Properties *)

PostRoutes == {"/api/command", "/api/mode"}
GetRoutes == {"/", "/api/status"}

\* This step is the end of a poller tick that went through the sleep.
TickResumed == call[Poller].state = "sleeping" /\ call'[Poller].state # "sleeping"

\* c's POST has a non-empty value in the field its route requires.
Accepted(c) ==
    /\ req[c].route \in PostRoutes
    /\ req[c].pc # "idle"
    /\ RouteField(req[c].route) \in DOMAIN req[c].body
    /\ req[c].body[RouteField(req[c].route)] # ""

\* C1: every poller tick ends with exactly one Timer pending for the next
\* tick, whatever send_command returned and whatever the device replied: the
\* poller is between ticks with one Timer pending, or inside a tick, and
\* never stopped by an exception.
C1_EveryTickSchedulesNext ==
    \/ pollerPc \in {"none", "sleeping"}
    \/ pollerPc = "idle" /\ timers = 1

\* C2: a send_command made while serial_connected is false returns
\* (False, "Not connected to device") and neither writes to nor reads from
\* the transport.
C2_DisconnectedSendFails ==
    ~serial_connected =>
        /\ line = <<>> /\ rx = <<>>
        /\ \A c \in Callers :
              call[c].called =>
                 /\ call[c].state = "returned"
                 /\ ~call[c].success
                 /\ call[c].error = "Not connected to device"
                 /\ ~call[c].raised
                 /\ call[c].wrote = <<>>
                 /\ call[c].reads = 0
        /\ \A c \in Clients :
              Accepted(c) =>
                 /\ call[c].called
                 /\ http[c].code = 200
                 /\ ~http[c].success
                 /\ http[c].error = "Not connected to device"

C2_Witness ==
    /\ ~serial_connected
    /\ \E c \in Clients :
          /\ call[c].called
          /\ req[c].route = "/api/mode"
          /\ http[c].error = "Not connected to device"

\* C3: device_status changes only in the step that ends a poller tick whose
\* send succeeded and whose reply json.loads accepted; a tick whose reply is
\* not JSON or whose send failed, and every HTTP request, leave it as it
\* was, and a GET returns it as it is.
C3_StatusChangedOnlyByParsedTick ==
    [][ /\ device_status' # device_status =>
              TickResumed /\ tick'.done /\ tick'.success /\ tick'.parsed
        /\ \A c \in Clients :
              (req'[c] # req[c] \/ http'[c] # http[c]) =>
                 /\ device_status' = device_status
                 /\ (req'[c].route \in GetRoutes /\ req'[c].pc = "done") =>
                        http'[c].status = device_status
      ]_vars

C3_Witness ==
    /\ tick.done /\ tick.success /\ ~tick.parsed /\ tick.n = 1
    /\ device_status.mode = "sniff"
    /\ \E c \in Clients :
          /\ req[c].route = "/api/status" /\ req[c].pc = "done"
          /\ http[c].status = device_status

\* C4: when a tick's reply is a JSON object, after the tick every key of
\* the reply holds the reply's value and every other key of device_status
\* holds the value it had before the tick.
C4_ObjectReplyMerged ==
    [][ (TickResumed /\ tick'.parsed /\ tick'.val.kind = "object") =>
           LET o == tick'.val.obj
           IN  /\ \A k \in DOMAIN o :
                     k \in DOMAIN device_status' /\ device_status'[k] = o[k]
               /\ \A k \in DOMAIN device_status \ DOMAIN o :
                     k \in DOMAIN device_status' /\ device_status'[k] = device_status[k]
      ]_vars

C4_Witness ==
    /\ tick.parsed
    /\ tick.val = JObject([mode |-> "scan", uptime |-> "7"])
    /\ device_status.mode = "scan"
    /\ device_status.btc_price = "65000.1"
    /\ device_status.wifi_connected = "false"
    /\ device_status.last_update = "0"

\* C5 as stated: the key set of device_status is always exactly the five
\* status fields, whatever keys the device's replies carry.
C5_KeySetExactlyStatusFields == DOMAIN device_status = StatusFields

\* C5 amended: device_status always has the five status fields; a key of a
\* reply that is not one of them is added next to them.
C5_StatusFieldsAlwaysPresent == StatusFields \subseteq DOMAIN device_status

C5_Witness ==
    /\ "uptime" \in DOMAIN device_status
    /\ device_status["uptime"] = "7"
    /\ StatusFields \subseteq DOMAIN device_status

\* C6: while connected, an accepted POST makes exactly one transport write:
\* the command and a newline for /api/command, "mode ", the mode and a
\* newline for /api/mode.
C6_PostWritesCommandLine ==
    \A c \in Clients :
       (serial_connected /\ Accepted(c)) =>
          /\ Len(call[c].wrote) = 1
          /\ (req[c].route = "/api/command" =>
                 call[c].wrote[1] = req[c].body["command"] \o "\n")
          /\ (req[c].route = "/api/mode" =>
                 call[c].wrote[1] = "mode " \o req[c].body["mode"] \o "\n")

C6_Witness ==
    /\ serial_connected
    /\ \E c \in Clients :
          /\ req[c].route = "/api/mode"
          /\ req[c].body = [mode |-> "scan"]
          /\ call[c].wrote = <<"mode scan\n">>
          /\ http[c].code = 200 /\ http[c].success

\* c's request is a POST whose body lacks the field its route requires.
FieldAbsent(r) ==
    /\ r.route \in PostRoutes
    /\ r.pc # "idle"
    /\ RouteField(r.route) \notin DOMAIN r.body

\* C7: a POST whose body lacks the route's field is answered 400 with
\* success false and the route's message, makes no send_command call (no
\* write, no read) and changes nothing shared.
C7_MissingFieldRejected ==
    [][ \A c \in Clients :
           (FieldAbsent(req'[c]) /\ (req'[c] # req[c] \/ http'[c] # http[c])) =>
              /\ req'[c].pc = "done"
              /\ http'[c].code = 400
              /\ ~http'[c].success
              /\ http'[c].error = IF req'[c].route = "/api/command"
                                  THEN "No command provided"
                                  ELSE "No mode provided"
              /\ call'[c] = NoCall
              /\ UNCHANGED <<serial_port, serial_connected, device_status,
                             line, rx, tick, timers, pollerPc, mainPc>>
      ]_vars

C7_Witness ==
    /\ serial_connected
    /\ \E c \in Clients :
          /\ req[c].route = "/api/command"
          /\ req[c].body = EmptyDict
          /\ http[c].code = 400
          /\ http[c].error = "No command provided"

TransportErrors == {"write failed", "read failed", "can't decode byte"}

\* C8: a write or read error inside send_command comes back as
\* (False, message): no exception reaches the HTTP handler (no 500) or the
\* poller; serial_connected stays true, and every send_command made while it
\* is true passes its command to the transport.
C8_TransportErrorReturned ==
    [][ /\ serial_connected => serial_connected'
        /\ \A c \in Clients :
              (call'[c].called /\ serial_connected') =>
                 /\ ~call'[c].raised
                 /\ Len(call'[c].wrote) = 1
                 /\ (call'[c].state = "returned" =>
                        /\ http'[c].code = 200
                        /\ http'[c].success = call'[c].success
                        /\ http'[c].error = call'[c].error
                        /\ (call'[c].success <=> call'[c].error \notin TransportErrors))
        /\ (tick'.done /\ ~tick'.success) =>
              /\ tick'.error \in TransportErrors
              /\ ~tick'.raised
              /\ pollerPc' \in {"idle", "sleeping"}
      ]_vars

C8_Witness ==
    /\ serial_connected
    /\ tick.done /\ ~tick.success /\ tick.error = "read failed"
    /\ pollerPc = "sleeping"
    /\ Len(call[Poller].wrote) = 1
    /\ \E c \in Clients :
          /\ http[c].code = 200 /\ ~http[c].success
          /\ http[c].error = "write failed"

\* C9: connect_serial runs at most once; when it fails main() ends with no
\* tick run, no Timer started, no request served and nothing written to or
\* read from the transport; when main() was run, the poller and the HTTP
\* facade run only after connect_serial returned true.
C9_FailedConnectEndsProcess ==
    /\ connects <= 1
    /\ mainPc = "exited" =>
          /\ connects = 1
          /\ ~serial_connected
          /\ pollerPc = "none" /\ timers = 0 /\ ~tick.done
          /\ line = <<>> /\ rx = <<>>
          /\ \A c \in Callers : call[c] = NoCall
          /\ \A c \in Clients : req[c] = NoReq /\ http[c] = NoHttp
    /\ mainPc # "imported" =>
          ( (\/ pollerPc # "none"
             \/ timers > 0
             \/ tick.done
             \/ \E c \in Callers : call[c] # NoCall
             \/ \E c \in Clients : req[c] # NoReq)
            => serial_connected /\ connects = 1 )

C9_Witness == mainPc = "exited" /\ connects = 1 /\ serial_port = "None"

TagsOf(resp) == [i \in 1..Len(resp) |-> resp[i].for]

\* C10: send_command holds no lock across its write and read. While one
\* caller sleeps between them the other can start its own send_command, and
\* a read returns every chunk waiting, whoever's command it answers.
C10_ReadsTakeEveryWaitingChunk ==
    [][ /\ (call[Poller].state = "sleeping" /\ Serving) =>
              \A c \in Clients : req[c].pc # "sleeping" => ENABLED HttpPostBegin(c)
        /\ ((\E c \in Clients : call[c].state = "sleeping")
                /\ pollerPc = "idle" /\ timers > 0) => ENABLED PollerTickBegin
        /\ \A c \in Clients :
              (call[c].state = "sleeping" /\ call'[c].state = "returned"
                 /\ call'[c].success) =>
                 /\ TagsOf(call'[c].response) = rx
                 /\ rx' = <<>>
        /\ (TickResumed /\ tick'.success) => tick'.n = Len(rx) /\ rx' = <<>>
      ]_vars

\* The poller wrote, the HTTP request wrote, and the request's read returned
\* the reply to the poller's command; the poller's read then found nothing.
C10_Witness ==
    /\ tick.done /\ tick.success /\ tick.robbed /\ tick.n = 0
    /\ \E c \in Clients :
          /\ call[c].state = "returned" /\ call[c].success
          /\ \E i \in 1..Len(call[c].response) : call[c].response[i].for = Poller

====
